---- MODULE Spec2Model ----
(***************************************************************************)
(* onebrc: the aggregator of src/src/main.rs with the tokenizer, the       *)
(* decimal parser and the aggregate of src/src/lib.rs (main.rs carries a   *)
(* line-for-line copy of them under the name Record).                      *)
(*                                                                         *)
(* Bytes are their ASCII codes. Positions in a byte sequence are 1-based   *)
(* here and 0-based in the source: the source's index i is i+1 here, and 0 *)
(* stands for the source's None.                                           *)
(*                                                                         *)
(* An f32 is modelled by the integer number of units of 2^-FracBits it     *)
(* holds; every f32 the model meets is a multiple of that unit, and its    *)
(* 24-bit significand is kept: a sum is rounded to the nearest             *)
(* representable value, ties to even, as IEEE-754 does.                    *)
(***************************************************************************)
EXTENDS Integers, Sequences, FiniteSets, TLC

\* ------------------------------------------------------------- bounds

\* Most worker threads (available_parallelism) a run is given.
MaxN == 3
\* Most lines of an input file.
MaxRows == 3
\* The read buffer's capacity in bytes (2 * 1024 * 1024 in the source).
PageSize == 12
\* Most read errors injected into one run.
MaxFaults == 1
\* An f32 is counted in units of 2^-FracBits.
FracBits == 2

\* ---------------------------------------------------------- constants

NL == 10
SEMI == 59
MINUS == 45
DOT == 46
ZERO == 48
NINE == 57
\* f32 carries a 24-bit significand.
MantissaBits == 24
\* f32::MAX and f32::MIN: beyond every value the bounded inputs produce.
F32MAX == 2147483647
F32MIN == -2147483647
\* The limit of the last reader, u64::MAX: "no limit".
TakeMax == 2147483647

\* ------------------------------------------------------------ helpers

MinOf(S) == CHOOSE x \in S : \A y \in S : x <= y
MaxOf(S) == CHOOSE x \in S : \A y \in S : x >= y
Abs(x) == IF x < 0 THEN -x ELSE x
Unit == 2 ^ FracBits

RECURSIVE Pow10(_)
Pow10(k) == IF k = 0 THEN 1 ELSE 10 * Pow10(k - 1)

\* slice.iter().position from a starting place: the first i >= from with
\* buf[i] = b, or 0.
Find(buf, b, from) ==
    LET S == {i \in from..Len(buf) : buf[i] = b}
    IN IF S = {} THEN 0 ELSE MinOf(S)

\* ---------------------------------------------------------------- f32

\* The exponent of the quantum of |x| >= 2^MantissaBits: 2^(M-1+e) <= |x| < 2^(M+e).
QuantumExp(a) ==
    MinOf({e \in 1..(31 - MantissaBits) : a \div (2 ^ MantissaBits) < 2 ^ e})

\* Round to nearest, ties to even, at a 24-bit significand.
RoundF32(x) ==
    LET a == Abs(x)
    IN IF a < 2 ^ MantissaBits THEN x
       ELSE LET q == 2 ^ QuantumExp(a)
                m == a \div q
                r == a - m * q
                up == (2 * r > q) \/ (2 * r = q /\ m % 2 = 1)
                v == IF up THEN (m + 1) * q ELSE m * q
            IN IF x < 0 THEN -v ELSE v

\* f32 addition.
FAdd(a, b) == RoundF32(a + b)
\* f32::min and f32::max (no NaN arises).
FMin(a, b) == IF a <= b THEN a ELSE b
FMax(a, b) == IF a >= b THEN a ELSE b

\* The f32 quotient a / 10^k of an f32 a: the exact quotient rounded to nearest,
\* ties to even. It is the source's quotient when that is a whole number of
\* units, as it is for every value of the bounded inputs.
FDivPow10(a, k) ==
    LET d == Pow10(k)
        m == Abs(a) \div d
        r == Abs(a) - m * d
        up == (2 * r > d) \/ (2 * r = d /\ m % 2 = 1)
        v == RoundF32(IF up THEN m + 1 ELSE m)
    IN IF a < 0 THEN -v ELSE v

\* ------------------------------------------------------ Sample / Record

SampleDefault == [min |-> F32MAX, max |-> F32MIN, sum |-> 0, count |-> 0]

SampleFrom(v) == [min |-> v, max |-> v, sum |-> v, count |-> 1]

\* SampleAdd with the minimum left as it was.
SampleAddMinKept(s, v) ==
    [min |-> s.min, max |-> FMax(s.max, v),
     sum |-> FAdd(s.sum, v), count |-> s.count + 1]

SampleAdd(s, v) ==
    [min |-> FMin(s.min, v), max |-> FMax(s.max, v),
     sum |-> FAdd(s.sum, v), count |-> s.count + 1]

\* SampleMerge with the other aggregate's count left out.
SampleMergeCountKept(s, other) ==
    [min |-> FMin(s.min, other.min), max |-> FMax(s.max, other.max),
     sum |-> FAdd(s.sum, other.sum), count |-> s.count]

SampleMerge(s, other) ==
    [min |-> FMin(s.min, other.min), max |-> FMax(s.max, other.max),
     sum |-> FAdd(s.sum, other.sum), count |-> s.count + other.count]

\* ------------------------------------------------------------- tables

\* A Table is a function from keys (byte sequences) to Samples.
EmptyTable == [k \in {} |-> SampleDefault]

\* insert_or_update with a present key's aggregate replaced, as table.insert
\* alone would.
insert_or_replace(table, k, v) ==
    [x \in DOMAIN table \cup {k} |-> IF x = k THEN SampleFrom(v) ELSE table[x]]

insert_or_update(table, k, v) ==
    IF k \in DOMAIN table
    THEN [table EXCEPT ![k] = SampleAdd(@, v)]
    ELSE [x \in DOMAIN table \cup {k} |-> IF x = k THEN SampleFrom(v) ELSE table[x]]

\* MergeTables with r's entry put in place of l's, as l.extend(r) would.
MergeTablesOverwrite(l, r) ==
    [k \in DOMAIN l \cup DOMAIN r |-> IF k \in DOMAIN r THEN r[k] ELSE l[k]]

\* The reducer's closure: every entry of r merged into l's entry, made from the
\* default when absent.
MergeTables(l, r) ==
    [k \in DOMAIN l \cup DOMAIN r |->
        IF k \in DOMAIN r
        THEN SampleMerge(IF k \in DOMAIN l THEN l[k] ELSE SampleDefault, r[k])
        ELSE l[k]]

\* ------------------------------------------------------ parse_decimal

IsDigit(b) == ZERO <= b /\ b <= NINE
DecimalByte(b) == b = MINUS \/ b = DOT \/ IsDigit(b)

\* n is an i32 (the i32 of line 169 fixes its type): the greatest one.
MaxI32 == 2147483647

\* n * 10 + sd, computed in i32, overflows: in the product, or in the sum.
I32Overflows(n, sd) ==
    \/ n > (MaxI32 \div 10)
    \/ n < -(MaxI32 \div 10)
    \/ (n = (MaxI32 \div 10) /\ sd > (MaxI32 % 10))
    \/ (n = -(MaxI32 \div 10) /\ sd < -(MaxI32 % 10) - 1)

\* n * 10 + sd modulo 2^32, as an i32: what a build without overflow checks
\* computes. The two 16-bit halves of n are worked on one at a time.
I32Wrap10(n, sd) ==
    LET h == (n \div (2 ^ 16)) % (2 ^ 16)
        l == n % (2 ^ 16)
        l1 == l * 10 + sd
        h1 == (h * 10 + (l1 \div (2 ^ 16))) % (2 ^ 16)
        l2 == l1 % (2 ^ 16)
    IN IF h1 >= 2 ^ 15 THEN (h1 - 2 ^ 16) * (2 ^ 16) + l2
       ELSE h1 * (2 ^ 16) + l2

\* The loop of parse_decimal over bs[1..i]: n, signum and dot (a 0-based index),
\* and whether some step overflowed.
RECURSIVE DecimalScan(_, _)
DecimalScan(bs, i) ==
    IF i = 0 THEN [n |-> 0, signum |-> 1, dot |-> Len(bs) - 1, overflow |-> FALSE]
    ELSE LET p == DecimalScan(bs, i - 1)
             b == bs[i]
             sd == p.signum * (b - ZERO)
         IN IF b = MINUS THEN [p EXCEPT !.signum = -p.signum]
            ELSE IF b = DOT THEN [p EXCEPT !.dot = i - 1]
            ELSE [p EXCEPT !.n = I32Wrap10(p.n, sd),
                           !.overflow = p.overflow \/ I32Overflows(p.n, sd)]

\* parse_decimal in a build with overflow checks (checks) or without: [panic, v].
\* With the checks an overflow of n, and the bs.len() - 1 of an empty slice,
\* panic; without them n wraps, and the empty slice gives n = 0 undivided.
parse_decimal_build(bs, checks) ==
    IF bs = <<>> THEN [panic |-> checks, v |-> 0]
    ELSE IF \E i \in 1..Len(bs) : ~DecimalByte(bs[i]) THEN [panic |-> TRUE, v |-> 0]
    ELSE LET s == DecimalScan(bs, Len(bs))
         IN IF checks /\ s.overflow THEN [panic |-> TRUE, v |-> 0]
            ELSE [panic |-> FALSE,
                  v |-> FDivPow10(RoundF32(s.n * Unit), Len(bs) - 1 - s.dot)]

\* The build of the runs of produce_table below. No slice that produce_table
\* hands to parse_decimal in them is empty or overflows, so they are the same
\* runs in either build.
OverflowChecks == TRUE

parse_decimal(bs) == parse_decimal_build(bs, OverflowChecks)


\* -------------------------------------------------------------- state

VARIABLES
    file,       \* the input file's bytes
    N,          \* core_count = num_chunks
    cap,        \* the BufReader's capacity
    mainpc,     \* where main is
    splits,     \* the aligned split points found so far
    infiles,    \* the readers as opened, one per partition, in order
    rd,         \* per worker: its BufReader over a Take of the file
    wst,        \* per worker: "idle", "run", "sent" or "panicked"
    table,      \* per worker: the table produce_table is building
    stash,      \* per worker: the stash of produce_table between iterations
    calls,      \* per worker: the calls of insert_or_update so far, in order
    spawned,    \* how many workers main has spawned
    txMain,     \* main still holds the channel's original sender
    chan,       \* the tables sent and not yet received, oldest first
    red,        \* the reducer: "idle", "run", "done" or "panicked"
    acc,        \* the reducer's running result: <<>> or <<table>>
    merged,     \* the senders of the tables the reducer has folded, in order
    stdout,     \* what has been written to standard output
    faults      \* read errors injected so far

vars == <<file, N, cap, mainpc, splits, infiles, rd, wst, table, stash, calls, spawned, txMain,
          chan, red, acc, merged, stdout, faults>>

Workers == 1..N

\* ------------------------------------------------------------- inputs

KeyA == <<97>>
KeyBC == <<98, 99>>
Row(key, val) == key \o <<SEMI>> \o val \o <<NL>>

\* The key and the value field of a line: the bytes before its first ';' and
\* those between it and the '\n'.
RowKey(l) == SubSeq(l, 1, Find(l, SEMI, 1) - 1)
RowVal(l) == SubSeq(l, Find(l, SEMI, 1) + 1, Len(l) - 1)

\* "a;1\n", "a;16777216\n", "bc;-2.5\n"
RowA1 == Row(KeyA, <<49>>)
RowBig == Row(KeyA, <<49, 54, 55, 55, 55, 50, 49, 54>>)
RowBC == Row(KeyBC, <<45, 50, 46, 53>>)
\* "bc\n": a line with no separator; "a;x\n": a value that is no decimal.
LineNoSep == KeyBC \o <<NL>>
LineBadDigit == Row(KeyA, <<120>>)
\* "bc;-2.5": a last row with no terminating newline.
Unterminated == KeyBC \o <<SEMI, 45, 50, 46, 53>>
\* "defghi;1\n": a row whose key is as long as two pages of three bytes.
KeyLong == <<100, 101, 102, 103, 104, 105>>
RowLong == Row(KeyLong, <<49>>)

WellFormedRows == {RowA1, RowBig, RowBC}
Lines == WellFormedRows \cup {LineNoSep}

RECURSIVE Concat(_)
Concat(ls) == IF ls = <<>> THEN <<>> ELSE Head(ls) \o Concat(Tail(ls))

LineSeqs == UNION {[1..n -> Lines] : n \in 0..MaxRows}
Files == {Concat(ls) \o t : ls \in LineSeqs, t \in {<<>>, Unterminated}}

\* The tokenizer's inputs: the same, lines whose value is no decimal and rows
\* with a long key.
TokLineSeqs == UNION {[1..n -> Lines \cup {LineBadDigit, RowLong}] : n \in 0..MaxRows}
TokFiles == {Concat(ls) \o t : ls \in TokLineSeqs, t \in {<<>>, Unterminated}}

\* ------------------------------------------------------------- reader

\* A reader is [buf, pos, lim]: the bytes the BufReader holds unconsumed, the
\* file offset of the File under it, and what is left of the Take's limit.
NewReader(start, lim) == [buf |-> <<>>, pos |-> start, lim |-> lim]

\* Take<File>::read into the whole (empty) buffer: a regular file gives all it
\* is asked for, up to its end.
ReadPage(r) ==
    LET avail == IF Len(file) > r.pos THEN Len(file) - r.pos ELSE 0
        n == MinOf({cap, r.lim, avail})
    IN [buf |-> SubSeq(file, r.pos + 1, r.pos + n),
        pos |-> r.pos + n,
        lim |-> IF r.lim = TakeMax THEN TakeMax ELSE r.lim - n]

\* BufReader::fill_buf: reads only when nothing is left unconsumed.
fill_buf(r) == IF r.buf # <<>> THEN r ELSE ReadPage(r)

\* BufReader::consume.
consume(r, amt) == [r EXCEPT !.buf = SubSeq(r.buf, amt + 1, Len(r.buf))]


\* ------------------------------------------------------ produce_table

\* The key and the value bytes of a row found whole in one page: sep and end are
\* the places of its ';' and its '\n' in buf.
RowInPage(buf, sep, end) ==
    [name |-> SubSeq(buf, 1, sep - 1), val |-> SubSeq(buf, sep + 1, end - 1)]

\* The row whose ';' was found in the stashed page and whose '\n' in the next:
\* stash holds the row without its '\n', sep is the place of ';' in it.
RowInStash(sh, sep) ==
    [name |-> SubSeq(sh, 1, sep - 1), val |-> SubSeq(sh, sep + 1, Len(sh))]

\* RowAfterStash with the stashed head of the key forgotten.
RowAfterStashForgotten(sh, buf, sep, end) ==
    [name |-> SubSeq(buf, 1, sep - 1), val |-> SubSeq(buf, sep + 1, end - 1)]

\* The row whose ';' and '\n' were both found in the page after the stashed one:
\* the key is the stash followed by the page's bytes before sep.
RowAfterStash(sh, buf, sep, end) ==
    [name |-> sh \o SubSeq(buf, 1, sep - 1), val |-> SubSeq(buf, sep + 1, end - 1)]

\* The row whose ';' was found in the second page and whose '\n' in the third:
\* the stash holds all three parts and is split at sep, the place of ';' in
\* the second page.
RowInThirdPage(sh, sep) ==
    [name |-> SubSeq(sh, 1, sep - 1), val |-> SubSeq(sh, sep + 1, Len(sh))]

\* How many bytes the reader gives up for a row whose '\n' is at place end of
\* the current page: consume(end + 1) for the 0-based end of the source.
RowConsumed(end) == end

\* What one iteration of the loop ends with.
\*   out: "row" (one insert_or_update), "none" (nothing inserted, the loop goes
\*        on), "break" (the loop ends and the table is returned), "panic"
\*   stash: what the stash holds when the iteration ends
\*   fault: a read error was met
Outcome(out, r, st, t, log, fault) ==
    [out |-> out, rd |-> r, stash |-> st, table |-> t, log |-> log, fault |-> fault]

\* stash.clear() with the stash left as it is.
StashKept(st) == st

\* Line 151: stash.clear().
StashClear(st) == <<>>

\* parse_decimal and insert_or_update on a located row, the reader left at r and
\* the stash holding st, then the stash.clear() that ends the iteration.
Insert(r, st, t, kv, branch) ==
    LET p == parse_decimal(kv.val)
    IN IF p.panic THEN Outcome("panic", r, st, t, <<>>, FALSE)
       ELSE Outcome("row", r, StashClear(st), insert_or_update(t, kv.name, p.v),
                    <<[key |-> kv.name, val |-> kv.val, v |-> p.v, branch |-> branch]>>,
                    FALSE)

\* The page after a stashed one: buf is wholly consumed and filled again.
NextPage(r) == fill_buf(consume(r, Len(r.buf)))

\* ';' was found at sep in buf = r1.buf, and no '\n' after it; st is the stash
\* the iteration began with.
NewlineInNextPage(r1, st, t, sep, ferr) ==
    LET sh == st \o r1.buf
        r2 == NextPage(r1)
        end == Find(r2.buf, NL, 1)
    IN IF ferr = 2 THEN Outcome("panic", consume(r1, Len(r1.buf)), sh, t, <<>>, TRUE)
       ELSE IF end = 0 THEN Outcome("panic", r2, sh, t, <<>>, FALSE)
       ELSE Insert(consume(r2, RowConsumed(end)), sh \o SubSeq(r2.buf, 1, end - 1), t,
                   RowInStash(sh \o SubSeq(r2.buf, 1, end - 1), sep), "newline_next")

\* No ';' was found in r1.buf; st is the stash the iteration began with.
SeparatorInNextPage(r1, st, t, ferr) ==
    LET sh == st \o r1.buf
        r2 == NextPage(r1)
        sep == Find(r2.buf, SEMI, 1)
        end == Find(r2.buf, NL, sep + 1)
        r3 == NextPage(r2)
        end3 == Find(r3.buf, NL, 1)
    IN IF ferr = 2 THEN Outcome("panic", consume(r1, Len(r1.buf)), sh, t, <<>>, TRUE)
       ELSE IF sep = 0 THEN Outcome("none", r2, StashClear(sh), t, <<>>, FALSE)
       ELSE IF end # 0
       THEN Insert(consume(r2, RowConsumed(end)), sh \o SubSeq(r2.buf, 1, sep - 1), t,
                   RowAfterStash(sh, r2.buf, sep, end), "separator_next")
       ELSE IF ferr = 3
       THEN Outcome("panic", consume(r2, Len(r2.buf)), sh \o r2.buf, t, <<>>, TRUE)
       ELSE IF end3 = 0 THEN Outcome("panic", r3, sh \o r2.buf, t, <<>>, FALSE)
       ELSE Insert(consume(r3, RowConsumed(end3)),
                   sh \o r2.buf \o SubSeq(r3.buf, 1, end3 - 1), t,
                   RowInThirdPage(sh \o r2.buf \o SubSeq(r3.buf, 1, end3 - 1), sep),
                   "third_page")

\* One iteration of produce_table's loop from reader r, stash st and table t.
\* ferr names the fill_buf of this iteration that meets a read error: 0 none, 1
\* the one at the head of the loop, 2 and 3 the refills in the middle of a row.
Iteration(r, st, t, ferr) ==
    LET r1 == fill_buf(r)
        buf == r1.buf
        sep == Find(buf, SEMI, 1)
        end == Find(buf, NL, sep + 1)
    IN IF ferr = 1 THEN Outcome("break", r, st, t, <<>>, TRUE)
       ELSE IF buf = <<>> THEN Outcome("break", r1, st, t, <<>>, FALSE)
       ELSE IF sep # 0
       THEN IF end # 0
            THEN Insert(consume(r1, RowConsumed(end)), st, t, RowInPage(buf, sep, end), "page")
            ELSE NewlineInNextPage(r1, st, t, sep, ferr)
       ELSE SeparatorInNextPage(r1, st, t, ferr)

\* Whether the fill_buf that ferr names is one the iteration makes, and one that
\* reads: the head's does when nothing is left unconsumed, a refill always.
FaultPossible(r, st, t, ferr) ==
    CASE ferr = 0 -> TRUE
      [] ferr = 1 -> r.buf = <<>>
      [] OTHER -> Iteration(r, st, t, ferr).fault


\* ------------------------------------------------------------- report

\* U+FFFD, the replacement character of from_utf8_lossy.
Replacement == 65533

\* String::from_utf8_lossy: the characters (code points) of a byte string. A
\* byte below 128 is its own character, a lead byte of a two-byte sequence and
\* its continuation byte make one character, and a byte that starts no valid
\* sequence becomes U+FFFD. No key of the inputs has the lead byte of a three-
\* or four-byte sequence.
RECURSIVE from_utf8_lossy(_)
from_utf8_lossy(bs) ==
    IF bs = <<>> THEN <<>>
    ELSE IF bs[1] < 128 THEN <<bs[1]>> \o from_utf8_lossy(Tail(bs))
    ELSE IF bs[1] \in 194..223 /\ Len(bs) >= 2 /\ bs[2] \in 128..191
    THEN <<(bs[1] - 192) * 64 + (bs[2] - 128)>> \o from_utf8_lossy(SubSeq(bs, 3, Len(bs)))
    ELSE <<Replacement>> \o from_utf8_lossy(Tail(bs))

\* The keys of the BTreeMap<String, _> that collect() builds.
Cities(t) == {from_utf8_lossy(k) : k \in DOMAIN t}

\* collect() keeps, for each String, the entry that table.iter() yields last
\* among the keys that decode to it; a HashMap iterates in any order. Each
\* member names, for every String, the key whose entry is kept.
LastYielded(t) ==
    {f \in [Cities(t) -> DOMAIN t] : \A c \in Cities(t) : from_utf8_lossy(f[c]) = c}

\* The order of the BTreeMap<String, _>: that of the Strings' UTF-8 bytes,
\* which is the lexicographic order of their characters.
RECURSIVE LexLess(_, _)
LexLess(a, b) ==
    IF a = <<>> THEN b # <<>>
    ELSE IF b = <<>> THEN FALSE
    ELSE IF Head(a) # Head(b) THEN Head(a) < Head(b)
    ELSE LexLess(Tail(a), Tail(b))

RECURSIVE SortedKeys(_)
SortedKeys(K) ==
    IF K = {} THEN <<>>
    ELSE LET k == CHOOSE x \in K : \A y \in K \ {x} : LexLess(x, y)
         IN <<k>> \o SortedKeys(K \ {k})

Lit(text) == [kind |-> "lit", text |-> text]

\* The text "{city}={:.1}/{:.1}/{:.1}" of one entry, its figures kept as they
\* are; mean() is sum / count, kept as the pair.
EntryText(city, r) ==
    [kind |-> "entry", city |-> city, min |-> r.min, mean |-> <<r.sum, r.count>>,
     max |-> r.max]

\* One write!("{city}={:.1}/{:.1}/{:.1}, \n") of main.rs: the entry, then the
\* literal that follows it.
ReportEntry(k, r) == <<EntryText(k, r), Lit(", \n")>>

\* The loop of main.rs over the cities cs, last naming the key kept for each.
RECURSIVE ReportEntries(_, _, _)
ReportEntries(t, last, cs) ==
    IF cs = <<>> THEN <<>>
    ELSE ReportEntry(Head(cs), t[last[Head(cs)]]) \o ReportEntries(t, last, Tail(cs))

\* report of main.rs: what it writes to standard output.
report(t, last) ==
    <<Lit("{")>> \o ReportEntries(t, last, SortedKeys(Cities(t))) \o <<Lit("}\n")>>

\* The loop of lib.rs: ", " is written before every entry but the first.
RECURSIVE lib_entries(_, _, _, _)
lib_entries(t, last, cs, first) ==
    IF cs = <<>> THEN <<>>
    ELSE (IF first THEN <<>> ELSE <<Lit(", ")>>)
         \o <<EntryText(Head(cs), t[last[Head(cs)]])>>
         \o lib_entries(t, last, Tail(cs), FALSE)

\* report of lib.rs.
lib_report(t, last) ==
    <<Lit("{")>> \o lib_entries(t, last, SortedKeys(Cities(t)), TRUE) \o <<Lit("}\n")>>

\* --------------------------------------------------------------- main

\* The aligned split point for the naive one at pos: the offset after the first
\* '\n' at or after pos; 0 when there is none (a split point is never 0 otherwise).
AlignSplit(pos) == Find(file, NL, pos + 1)

\* NaiveSplit with the chunks counted from the end of the file.
NaiveSplitReversed(i) == (N - i) * (Len(file) \div N)

\* i * (file_len / num_chunks)
NaiveSplit(i) == i * (Len(file) \div N)

\* The readers of lines 81-98, in the order of infiles.
Infile(w) ==
    IF w = 1 THEN NewReader(0, splits[1])
    ELSE IF w = N THEN NewReader(splits[N - 1], TakeMax)
    ELSE NewReader(splits[w - 1], splits[w] - splits[w - 1])

\* One pass of the closure of line 70: the next split point is aligned. With no
\* '\n' from the naive point on, read returns 0 for ever and b[0] never becomes
\* '\n': the loop of line 74 does not end.
MainSplit ==
    /\ mainpc = "split"
    /\ Len(splits) < N - 1
    /\ LET a == AlignSplit(NaiveSplit(Len(splits) + 1))
       IN IF a = 0
          THEN mainpc' = "hung" /\ UNCHANGED splits
          ELSE splits' = Append(splits, a) /\ UNCHANGED mainpc
    /\ UNCHANGED <<stash, file, N, cap, infiles, rd, wst, table, calls, spawned, txMain, chan, red,
                   acc, merged, stdout, faults>>

\* Lines 81-100: the readers are opened. splits[0] is out of bounds when
\* num_chunks is 1.
MainOpen ==
    /\ mainpc = "split"
    /\ Len(splits) = N - 1
    /\ IF splits = <<>>
       THEN mainpc' = "panicked" /\ UNCHANGED <<infiles, rd>>
       ELSE /\ mainpc' = "spawn_reducer"
            /\ infiles' = [w \in Workers |-> Infile(w)]
            /\ rd' = infiles'
    /\ UNCHANGED <<stash, file, N, cap, splits, wst, table, calls, spawned, txMain, chan,
                   red, acc, merged, stdout, faults>>

\* Line 103.
MainSpawnReducer ==
    /\ mainpc = "spawn_reducer"
    /\ mainpc' = "spawn"
    /\ red' = "run"
    /\ UNCHANGED <<stash, file, N, cap, splits, infiles, rd, wst, table, calls, spawned, txMain,
                   chan, acc, merged, stdout, faults>>

\* Lines 116-124, one reader at a time: tx is cloned and the worker spawned.
MainSpawnWorker ==
    /\ mainpc = "spawn"
    /\ spawned < N
    /\ spawned' = spawned + 1
    /\ wst' = [wst EXCEPT ![spawned + 1] = "run"]
    /\ UNCHANGED <<stash, file, N, cap, mainpc, splits, infiles, rd, table, calls, txMain, chan,
                   red, acc, merged, stdout, faults>>

\* Line 125.
MainDropTx ==
    /\ mainpc = "spawn"
    /\ spawned = N
    /\ txMain' = FALSE
    /\ mainpc' = "join"
    /\ UNCHANGED <<stash, file, N, cap, splits, infiles, rd, wst, table, calls, spawned, chan, red,
                   acc, merged, stdout, faults>>

\* Line 126: the scope joins every thread and fails when one panicked.
MainJoin ==
    /\ mainpc = "join"
    /\ \A w \in Workers : wst[w] \in {"sent", "panicked"}
    /\ red \in {"done", "panicked"}
    /\ mainpc' = IF red = "panicked" \/ \E w \in Workers : wst[w] = "panicked"
                 THEN "panicked" ELSE "done"
    /\ UNCHANGED <<stash, file, N, cap, splits, infiles, rd, wst, table, calls, spawned, txMain,
                   chan, red, acc, merged, stdout, faults>>

\* ------------------------------------------------------------- worker

\* Lines 119-123: one iteration of produce_table's loop, the fill_buf that ferr
\* names meeting a read error; when the loop ends the table is sent and the
\* worker's sender dropped; a panic drops the sender too.
WorkerIteration(w, ferr) ==
    \E o \in {Iteration(rd[w], stash[w], table[w], ferr)} :
       /\ rd' = [rd EXCEPT ![w] = o.rd]
       /\ stash' = [stash EXCEPT ![w] = o.stash]
       /\ table' = [table EXCEPT ![w] = o.table]
       /\ calls' = [calls EXCEPT ![w] = @ \o o.log]
       /\ faults' = IF o.fault THEN faults + 1 ELSE faults
       /\ wst' = [wst EXCEPT ![w] = CASE o.out = "break" -> "sent"
                                      [] o.out = "panic" -> "panicked"
                                      [] OTHER -> "run"]
       /\ chan' = IF o.out = "break"
                  THEN Append(chan, [from |-> w, table |-> o.table])
                  ELSE chan
       /\ UNCHANGED <<file, N, cap, mainpc, splits, infiles, spawned, txMain, red, acc,
                      merged, stdout>>

\* An iteration in which every read succeeds.
WorkerStep(w) ==
    /\ wst[w] = "run"
    /\ WorkerIteration(w, 0)

\* An iteration in which one read fails.
WorkerReadError(w) ==
    /\ wst[w] = "run"
    /\ faults < MaxFaults
    /\ \E ferr \in 1..3 :
        /\ FaultPossible(rd[w], stash[w], table[w], ferr)
        /\ WorkerIteration(w, ferr)

\* ------------------------------------------------------------ reducer

\* SendersAlive with the workers' clones left out.
SendersAliveMainOnly == txMain

\* Some sender of the channel is alive: main's original or a running worker's clone.
SendersAlive == txMain \/ \E w \in Workers : wst[w] = "run"

\* One step of rx.iter().reduce(..): the first table becomes the running
\* result, every later one is merged into it.
ReducerRecv ==
    /\ red = "run"
    /\ chan # <<>>
    /\ acc' = IF acc = <<>> THEN <<Head(chan).table>>
              ELSE <<MergeTables(acc[1], Head(chan).table)>>
    /\ merged' = Append(merged, Head(chan).from)
    /\ chan' = Tail(chan)
    /\ UNCHANGED <<stash, file, N, cap, mainpc, splits, infiles, rd, wst, table, calls, spawned,
                   txMain, red, stdout, faults>>

\* The iterator ends once the channel is empty and every sender dropped: unwrap
\* panics when no table came, else the report is written.
ReducerEnd ==
    /\ red = "run"
    /\ chan = <<>>
    /\ ~SendersAlive
    /\ IF acc = <<>>
       THEN red' = "panicked" /\ UNCHANGED stdout
       ELSE /\ red' = "done"
            /\ \E last \in LastYielded(acc[1]) : stdout' = stdout \o report(acc[1], last)
    /\ UNCHANGED <<stash, file, N, cap, mainpc, splits, infiles, rd, wst, table, calls, spawned,
                   txMain, chan, acc, merged, faults>>

\* ------------------------------------------------------ specification

InitRun ==
    /\ splits = <<>>
    /\ infiles = <<>>
    /\ rd = [w \in Workers |-> NewReader(0, 0)]
    /\ wst = [w \in Workers |-> "idle"]
    /\ table = [w \in Workers |-> EmptyTable]
    /\ stash = [w \in Workers |-> <<>>]
    /\ calls = [w \in Workers |-> <<>>]
    /\ spawned = 0
    /\ txMain = TRUE
    /\ chan = <<>>
    /\ red = "idle"
    /\ acc = <<>>
    /\ merged = <<>>
    /\ stdout = <<>>
    /\ faults = 0

\* main from line 66 on, the file opened: any file, any core count.
Init ==
    /\ file \in Files
    /\ N \in 1..MaxN
    /\ cap = PageSize
    /\ mainpc = "split"
    /\ InitRun

Next ==
    \/ MainSplit
    \/ MainOpen
    \/ MainSpawnReducer
    \/ MainSpawnWorker
    \/ MainDropTx
    \/ MainJoin
    \/ \E w \in Workers : WorkerStep(w)
    \/ ReducerRecv
    \/ ReducerEnd

Spec == Init /\ [][Next]_vars

\* The same run with every thread scheduled again and again: main, each worker
\* and the reducer take their next step when one is open to them.
MainStep ==
    MainSplit \/ MainOpen \/ MainSpawnReducer \/ MainSpawnWorker \/ MainDropTx \/ MainJoin

ReducerStep == ReducerRecv \/ ReducerEnd

\* Weak fairness of worker w's iterations: WorkerStep(w) is open to w exactly
\* while wst[w] = "run", and every iteration changes the state.
WorkerFair(w) ==
    <>[](w \in Workers /\ wst[w] = "run") => []<><<w \in Workers /\ WorkerStep(w)>>_vars

SpecLive ==
    /\ Init
    /\ [][Next]_vars
    /\ WF_vars(MainStep)
    /\ WF_vars(ReducerStep)
    /\ \A w \in 1..MaxN : WorkerFair(w)

\* The same run on a file whose reads can fail.
NextFault == Next \/ \E w \in Workers : WorkerReadError(w)

SpecFault == Init /\ [][NextFault]_vars

\* produce_table alone, over the whole of a file, for every capacity of the
\* read buffer up to PageSize.
InitTok ==
    /\ file \in TokFiles
    /\ N = 1
    /\ cap \in 1..PageSize
    /\ mainpc = "produce_table"
    /\ InitRun

StartTok ==
    /\ mainpc = "produce_table"
    /\ wst[1] = "idle"
    /\ wst' = [wst EXCEPT ![1] = "run"]
    /\ rd' = [rd EXCEPT ![1] = NewReader(0, TakeMax)]
    /\ UNCHANGED <<stash, file, N, cap, mainpc, splits, infiles, table, calls, spawned, txMain,
                   chan, red, acc, merged, stdout, faults>>

NextTok == StartTok \/ WorkerStep(1)

SpecTok == InitTok /\ [][NextTok]_vars

\* produce_table on a thread that is scheduled as long as it can run.
TokFair == <>[](mainpc = "produce_table" /\ wst[1] \in {"idle", "run"}) => []<><<NextTok>>_vars

SpecTokLive == InitTok /\ [][NextTok]_vars /\ TokFair

\* The aggregates alone: MaxN tables, built by any sequence of at most MaxRows
\* calls of insert_or_update, each with the key and the parsed value of a row,
\* and of merges of one table into another; a table merged into another is moved
\* into the reducer's closure and is not used again.
InitAgg ==
    /\ file = <<>>
    /\ N = MaxN
    /\ cap = PageSize
    /\ mainpc = "aggregate"
    /\ InitRun

\* The calls of insert_or_update made so far on the first n tables.
RECURSIVE Observed(_)
Observed(n) == IF n = 0 THEN 0 ELSE Len(calls[n]) + Observed(n - 1)

Moved(w) == \E i \in 1..Len(merged) : merged[i] = w

AggInsert(w, row) ==
    /\ mainpc = "aggregate"
    /\ ~Moved(w)
    /\ Observed(N) < MaxRows
    /\ LET v == parse_decimal(RowVal(row)).v
       IN /\ table' = [table EXCEPT ![w] = insert_or_update(@, RowKey(row), v)]
          /\ calls' = [calls EXCEPT ![w] = Append(@, [key |-> RowKey(row), val |-> RowVal(row),
                                                      v |-> v, branch |-> "page"])]
    /\ UNCHANGED <<stash, file, N, cap, mainpc, splits, infiles, rd, wst, spawned, txMain, chan,
                   red, acc, merged, stdout, faults>>

AggMerge(l, r) ==
    /\ mainpc = "aggregate"
    /\ l # r
    /\ ~Moved(l) /\ ~Moved(r)
    /\ table' = [table EXCEPT ![l] = MergeTables(table[l], table[r]), ![r] = EmptyTable]
    /\ calls' = [calls EXCEPT ![l] = calls[l] \o calls[r], ![r] = <<>>]
    /\ merged' = Append(merged, r)
    /\ UNCHANGED <<stash, file, N, cap, mainpc, splits, infiles, rd, wst, spawned, txMain, chan,
                   red, acc, stdout, faults>>

NextAgg ==
    \/ \E w \in Workers, row \in WellFormedRows : AggInsert(w, row)
    \/ \E l \in Workers, r \in Workers : AggMerge(l, r)

SpecAgg == InitAgg /\ [][NextAgg]_vars

\* parse_decimal alone, on one byte string of the grammar
\* '-'? digit+ ('.' digit+)?, in either build.
Signs == {<<>>, <<MINUS>>}
\* "0", "1", "5", "7", "12", "100", "007", "4294967301"
IntParts == {<<48>>, <<49>>, <<53>>, <<55>>, <<49, 50>>, <<49, 48, 48>>, <<48, 48, 55>>,
             <<52, 50, 57, 52, 57, 54, 55, 51, 48, 49>>}
\* "", ".0", ".5", ".00", ".25", ".75", ".250"
FracParts == {<<>>, <<DOT, 48>>, <<DOT, 53>>, <<DOT, 48, 48>>, <<DOT, 50, 53>>,
              <<DOT, 55, 53>>, <<DOT, 50, 53, 48>>}
Decimals == {s \o i \o f : s \in Signs, i \in IntParts, f \in FracParts}

InitParse ==
    /\ file \in Decimals
    /\ N = 1
    /\ cap = PageSize
    /\ mainpc = "parse_decimal"
    /\ InitRun

\* One call of parse_decimal on the bytes of file.
ParseDecimal(checks) ==
    /\ mainpc = "parse_decimal"
    /\ wst[1] = "idle"
    /\ LET o == parse_decimal_build(file, checks)
       IN /\ wst' = [wst EXCEPT ![1] = IF o.panic THEN "panicked" ELSE "returned"]
          /\ calls' = [calls EXCEPT ![1] =
                          IF o.panic THEN <<>>
                          ELSE <<[key |-> <<>>, val |-> file, v |-> o.v,
                                  branch |-> "parse_decimal"]>>]
    /\ UNCHANGED <<stash, file, N, cap, mainpc, splits, infiles, rd, table, spawned, txMain, chan,
                   red, acc, merged, stdout, faults>>

NextParse == \E checks \in BOOLEAN : ParseDecimal(checks)

SpecParse == InitParse /\ [][NextParse]_vars

\* The two reports alone, on one final table. Its keys: "a", "bc", the two
\* bytes of U+00E9, and the bytes 0xFE and 0xFF, which no UTF-8 text holds.
ReportKeys == {KeyA, KeyBC, <<195, 169>>, <<254>>, <<255>>}
ReportSamples == {SampleFrom(parse_decimal(RowVal(RowA1)).v),
                  SampleFrom(parse_decimal(RowVal(RowBC)).v)}
ReportTables == UNION {[K -> ReportSamples] : K \in SUBSET ReportKeys}

InitReport ==
    /\ file = <<>>
    /\ N = 1
    /\ cap = PageSize
    /\ mainpc = "report"
    /\ splits = <<>>
    /\ infiles = <<>>
    /\ rd = [w \in Workers |-> NewReader(0, 0)]
    /\ wst = [w \in Workers |-> "idle"]
    /\ table = [w \in Workers |-> EmptyTable]
    /\ stash = [w \in Workers |-> <<>>]
    /\ calls = [w \in Workers |-> <<>>]
    /\ spawned = 0
    /\ txMain = TRUE
    /\ chan = <<>>
    /\ red = "idle"
    /\ acc \in {<<t>> : t \in ReportTables}
    /\ merged = <<>>
    /\ stdout = <<>>
    /\ faults = 0

\* report of main.rs on the table.
MainReport ==
    /\ mainpc = "report"
    /\ red = "idle"
    /\ red' = "main.rs"
    /\ \E last \in LastYielded(acc[1]) : stdout' = report(acc[1], last)
    /\ UNCHANGED <<stash, file, N, cap, mainpc, splits, infiles, rd, wst, table, calls, spawned,
                   txMain, chan, acc, merged, faults>>

\* report of lib.rs on the table.
LibReport ==
    /\ mainpc = "report"
    /\ red = "idle"
    /\ red' = "lib.rs"
    /\ \E last \in LastYielded(acc[1]) : stdout' = lib_report(acc[1], last)
    /\ UNCHANGED <<stash, file, N, cap, mainpc, splits, infiles, rd, wst, table, calls, spawned,
                   txMain, chan, acc, merged, faults>>

NextReport == MainReport \/ LibReport

SpecReport == InitReport /\ [][NextReport]_vars


\* ------------------------------------------- what the input should give

\* The lines of f, each with its '\n'; a last line without one is kept as it is.
RECURSIVE LinesOf(_)
LinesOf(f) ==
    IF f = <<>> THEN <<>>
    ELSE LET e == Find(f, NL, 1)
         IN IF e = 0 THEN <<f>>
            ELSE <<SubSeq(f, 1, e)>> \o LinesOf(SubSeq(f, e + 1, Len(f)))

AllDigits(bs) == bs # <<>> /\ \A i \in 1..Len(bs) : IsDigit(bs[i])

\* '-'? digit+ ('.' digit+)?
ValidDecimal(bs) ==
    LET body == IF bs # <<>> /\ bs[1] = MINUS THEN Tail(bs) ELSE bs
        d == Find(body, DOT, 1)
    IN IF d = 0 THEN AllDigits(body)
       ELSE AllDigits(SubSeq(body, 1, d - 1)) /\ AllDigits(SubSeq(body, d + 1, Len(body)))

HasSeparator(l) == Find(l, SEMI, 1) # 0
Terminated(l) == l # <<>> /\ l[Len(l)] = NL

\* key ';' value '\n'
WellFormedRow(l) == Terminated(l) /\ HasSeparator(l) /\ ValidDecimal(RowVal(l))

WellFormedFile(f) == \A i \in 1..Len(LinesOf(f)) : WellFormedRow(LinesOf(f)[i])

RowsFit(f, c) == \A i \in 1..Len(LinesOf(f)) : Len(LinesOf(f)[i]) <= c

RECURSIVE TotalLen(_, _)
TotalLen(ls, n) == IF n = 0 THEN 0 ELSE Len(ls[n]) + TotalLen(ls, n - 1)

\* The table of the first n rows of ls, one insert_or_update per row, in order.
RECURSIVE TableOfRows(_, _)
TableOfRows(ls, n) ==
    IF n = 0 THEN EmptyTable
    ELSE insert_or_update(TableOfRows(ls, n - 1), RowKey(ls[n]),
                          parse_decimal(RowVal(ls[n])).v)

\* produce_table run to its end from reader r, stash st and table t, no read
\* failing: [panic, table].
RECURSIVE ProduceFrom(_, _, _)
ProduceFrom(r, st, t) ==
    LET o == Iteration(r, st, t, 0)
    IN CASE o.out = "break" -> [panic |-> FALSE, table |-> o.table]
         [] o.out = "panic" -> [panic |-> TRUE, table |-> o.table]
         [] OTHER -> ProduceFrom(o.rd, o.stash, o.table)

\* Lines 69-71: the pass starts from an empty stash.
produce_table(r, t) == ProduceFrom(r, <<>>, t)

Terminal == {"done", "panicked", "hung"}
Reported == stdout # <<>>
ReportCount == Cardinality({i \in 1..Len(stdout) : stdout[i] = Lit("{")})
Times(seq, x) == Cardinality({i \in 1..Len(seq) : seq[i] = x})

\* The byte ranges of the partitions: [start, end) of each reader opened.
RangeStart(w) == infiles[w].pos
RangeEnd(w) ==
    IF infiles[w].lim = TakeMax \/ infiles[w].pos + infiles[w].lim > Len(file)
    THEN Len(file) ELSE infiles[w].pos + infiles[w].lim
RowBoundary(p) == p = 0 \/ p = Len(file) \/ (p <= Len(file) /\ file[p] = NL)

\* ------------------------------------------------------------- claims

\* C1: for a well-formed, newline-terminated file and a worker count N from 1 to
\* the number of rows, the run ends with the table that one produce_table pass
\* over the whole file gives: the same keys, and the same min, max, sum and
\* count for each.
C1_PartitionedEqualsSinglePass ==
    (file # <<>> /\ WellFormedFile(file) /\ N <= Len(LinesOf(file))
        /\ mainpc \in Terminal)
    => /\ red = "done"
       /\ acc = <<produce_table(NewReader(0, TakeMax), EmptyTable).table>>

\* C2: once the partitioner is through with a file of well-formed rows, there
\* are N byte ranges, the first
\* starting at 0, each starting where the one before ends, the last ending at
\* the file's length, and each starting and ending at a row boundary.
C2_PartitionsCoverFile ==
    (file # <<>> /\ WellFormedFile(file) /\ mainpc # "split")
    => /\ Len(infiles) = N
       /\ RangeStart(1) = 0
       /\ RangeEnd(N) = Len(file)
       /\ \A w \in 1..(N - 1) : RangeEnd(w) = RangeStart(w + 1)
       /\ \A w \in 1..N : /\ RangeStart(w) <= RangeEnd(w)
                          /\ RowBoundary(RangeStart(w))
                          /\ RowBoundary(RangeEnd(w))

\* C3: over well-formed rows none longer than the read buffer, wherever the page
\* boundaries fall, produce_table never panics and hands insert_or_update one
\* (key, value) pair per row, in file order: the key is the row's bytes before
\* ';', the value is parsed from the bytes between ';' and '\n', and the reader
\* has given up exactly the rows handed over; at the end every row was handed
\* over and the table sent is the table of the rows.
C3_OnePairPerRow ==
    (WellFormedFile(file) /\ RowsFit(file, cap) /\ wst[1] # "idle")
    => LET ls == LinesOf(file)
           c == calls[1]
       IN /\ wst[1] # "panicked"
          /\ Len(c) <= Len(ls)
          /\ \A i \in 1..Len(c) : /\ c[i].key = RowKey(ls[i])
                                  /\ c[i].val = RowVal(ls[i])
                                  /\ c[i].v = parse_decimal(RowVal(ls[i])).v
          /\ rd[1].pos - Len(rd[1].buf) = TotalLen(ls, Len(c))
          /\ table[1] = TableOfRows(ls, Len(c))
          /\ wst[1] = "sent" => /\ Len(c) = Len(ls)
                                /\ chan = <<[from |-> 1, table |-> TableOfRows(ls, Len(ls))]>>

\* A run of three rows that met a page boundary inside a key and one inside a
\* row past its ';', besides a row whole in its page.
C3_Witness ==
    /\ WellFormedFile(file) /\ RowsFit(file, cap)
    /\ wst[1] = "sent"
    /\ {calls[1][i].branch : i \in 1..Len(calls[1])}
         = {"page", "separator_next", "newline_next"}

\* C4: once a worker has panicked nothing is ever written to standard output.
C4_NoPartialReport ==
    (\E w \in Workers : wst[w] = "panicked") => ~Reported

\* The fold of the first n tables received, in the order received.
FoldReceived(n) ==
    LET F[i \in 1..n] == IF i = 1 THEN table[merged[1]]
                         ELSE MergeTables(F[i - 1], table[merged[i]])
    IN F[n]

\* C5: report is called at most once, and by the reducer alone; each worker's
\* table is folded into the running result at most once, and the running result
\* is the fold of the tables received, in the order received; when the report
\* is written and no worker failed, every worker's table has been sent and
\* folded; once the reducer has ended and no worker failed, one report has been
\* written.
C5_ReportOnceAfterAll ==
    /\ ReportCount <= 1
    /\ Reported => red = "done"
    /\ \A w \in Workers : Times(merged, w) <= 1
    /\ \A i \in 1..Len(merged) : wst[merged[i]] = "sent"
    /\ acc = IF merged = <<>> THEN <<>> ELSE <<FoldReceived(Len(merged))>>
    /\ (Reported /\ \A w \in Workers : wst[w] # "panicked")
       => /\ \A w \in Workers : wst[w] = "sent" /\ Times(merged, w) = 1
          /\ \E last \in LastYielded(acc[1]) : stdout = report(acc[1], last)
    /\ (red \in {"done", "panicked"} /\ \A w \in Workers : wst[w] # "panicked")
       => ReportCount = 1
    /\ mainpc = "done" => ReportCount = 1

\* A run of three workers that ended with no failure and its report written.
C5_Witness ==
    /\ mainpc = "done"
    /\ N = MaxN
    /\ ReportCount = 1
    /\ Len(merged) = N
    /\ \E w \in Workers : table[w] # EmptyTable


\* The workers whose finished table holds key k.
Holders(k) == {w \in Workers : wst[w] = "sent" /\ k \in DOMAIN table[w]}

RECURSIVE SumOver(_, _)
SumOver(S, f) ==
    IF S = {} THEN 0
    ELSE LET x == CHOOSE y \in S : TRUE IN f[x] + SumOver(S \ {x}, f)

\* The fold of the finished tables in the order of the workers' indices.
RECURSIVE FoldInOrder(_)
FoldInOrder(n) ==
    IF n = 0 THEN <<>>
    ELSE LET prev == FoldInOrder(n - 1)
         IN IF wst[n] # "sent" THEN prev
            ELSE IF prev = <<>> THEN <<table[n]>>
            ELSE <<MergeTables(prev[1], table[n])>>

\* C6 as stated: whatever the order in which the tables arrive, the reducer's
\* result is one and the same table, sums included: the one the tables give
\* when folded in the order of the workers.
C6_SameTableAnyOrder ==
    red = "done" => acc = FoldInOrder(N)

\* C6, amended: whatever the order of arrival, the result has the keys of all
\* the finished tables and, for each key, the least min, the greatest max and
\* the total count of the tables that hold it; its sum is the f32 sum of their
\* sums when at most two tables hold the key.
C6_OrderIndependent ==
    red = "done"
    => LET t == acc[1]
       IN /\ DOMAIN t = UNION {DOMAIN table[w] : w \in {x \in Workers : wst[x] = "sent"}}
          /\ \A k \in DOMAIN t :
               LET H == Holders(k)
               IN /\ t[k].min = MinOf({table[w][k].min : w \in H})
                  /\ t[k].max = MaxOf({table[w][k].max : w \in H})
                  /\ t[k].count = SumOver(H, [w \in H |-> table[w][k].count])
                  /\ Cardinality(H) <= 2
                     => t[k].sum = RoundF32(SumOver(H, [w \in H |-> table[w][k].sum]))

\* Three tables that arrived last worker first, with a key that two of them hold.
C6_Witness ==
    /\ red = "done"
    /\ Len(merged) = MaxN
    /\ merged[1] = N
    /\ \E k \in DOMAIN acc[1] : Cardinality(Holders(k)) = 2

\* C7: on an empty file the run ends having written "{}" and a newline.
C7_EmptyFileReport ==
    (file = <<>> /\ mainpc \in Terminal) => stdout = <<Lit("{"), Lit("}\n")>>

\* C8: a naive split point with no '\n' from it to the end of the file becomes
\* the file's length: the search ends, and main goes on.
C8_SplitCollapsesToLength ==
    \A i \in 1..(N - 1) :
        (file # <<>> /\ AlignSplit(NaiveSplit(i)) = 0)
        => /\ mainpc # "hung"
           /\ Len(splits) >= i => splits[i] = Len(file)

\* C9: once a read of a worker's input has failed, be the file ever so well
\* formed, the run does not end well and nothing is written to standard output.
C9_ReadErrorFatal ==
    (faults > 0 /\ file # <<>> /\ WellFormedFile(file))
    => ~Reported /\ mainpc # "done"

\* The bytes of worker w's partition, whether some line of f has no ';', and the
\* keys of the lines of f that have one.
PartitionBytes(w) == SubSeq(file, RangeStart(w) + 1, RangeEnd(w))
LacksSeparator(f) == \E i \in 1..Len(LinesOf(f)) : ~HasSeparator(LinesOf(f)[i])
KeysOfRows(f) == {RowKey(LinesOf(f)[i]) : i \in {j \in 1..Len(LinesOf(f)) : HasSeparator(LinesOf(f)[j])}}

\* C10: with a line that has no ';' in the file, the run does not end well and
\* nothing is reported; a worker whose partition holds such a line does not
\* finish its table; and every key of every table is the key of a line that has
\* its ';'.
C10_MissingSeparatorFatal ==
    /\ LacksSeparator(file) => ~Reported /\ mainpc # "done"
    /\ \A w \in Workers :
         /\ (wst[w] = "sent" /\ infiles # <<>>) => ~LacksSeparator(PartitionBytes(w))
         /\ DOMAIN table[w] \subseteq KeysOfRows(file)

\* C11: over well-formed rows some of which are longer than the read buffer,
\* whatever produce_table hands to insert_or_update is a row of the file, whole
\* and in file order (its key the row's bytes before ';', its value the bytes
\* between ';' and '\n'), and produce_table returns its table only when every
\* row was handed over: a row it cannot complete ends the pass with a panic.
C11_RowTooLargeFatal ==
    (WellFormedFile(file) /\ ~RowsFit(file, cap) /\ wst[1] # "idle")
    => LET ls == LinesOf(file)
           c == calls[1]
       IN /\ Len(c) <= Len(ls)
          /\ \A i \in 1..MinOf({Len(c), Len(ls)}) : /\ c[i].key = RowKey(ls[i])
                                                   /\ c[i].val = RowVal(ls[i])
          /\ wst[1] = "sent" => Len(c) = Len(ls)


\* The aggregates at hand: the default and every one stored in a table.
Samples == {SampleDefault} \cup UNION {{table[w][k] : k \in DOMAIN table[w]} : w \in Workers}

SameSample(a, b) ==
    a.min = b.min /\ a.max = b.max /\ a.sum = b.sum /\ a.count = b.count

\* C12 as stated: over the default and every stored aggregate, merge is
\* commutative and associative, and merging the default into an aggregate, or
\* an aggregate into the default, gives the aggregate's min, max, sum and count.
C12_MergeMonoid ==
    \A a \in Samples, b \in Samples, c \in Samples :
        /\ SameSample(SampleMerge(a, b), SampleMerge(b, a))
        /\ SameSample(SampleMerge(SampleMerge(a, b), c), SampleMerge(a, SampleMerge(b, c)))
        /\ SameSample(SampleMerge(a, SampleDefault), a)
        /\ SameSample(SampleMerge(SampleDefault, a), a)

\* The f32 sum of x and y is their exact sum.
ExactSum(x, y) == FAdd(x, y) = x + y

\* C12, amended: merge is commutative, the default is neutral on either side,
\* and merge is associative in min, max and count; it is associative in sum
\* when the two inner sums a + b and b + c are exact in f32.
C12_MergeCommutativeNeutral ==
    \A a \in Samples, b \in Samples, c \in Samples :
        LET l == SampleMerge(SampleMerge(a, b), c)
            r == SampleMerge(a, SampleMerge(b, c))
        IN /\ SameSample(SampleMerge(a, b), SampleMerge(b, a))
           /\ l.min = r.min /\ l.max = r.max /\ l.count = r.count
           /\ (ExactSum(a.sum, b.sum) /\ ExactSum(b.sum, c.sum)) => l.sum = r.sum
           /\ SameSample(SampleMerge(a, SampleDefault), a)
           /\ SameSample(SampleMerge(SampleDefault, a), a)

\* An aggregate of two values and one of a single value, in two tables, whose
\* sum rounds, the single value's sum with itself being exact.
C12_Witness ==
    /\ mainpc = "aggregate"
    /\ \E a \in Samples, b \in Samples :
         /\ a.count = 2 /\ a.min < a.max
         /\ b.count = 1
         /\ ~ExactSum(a.sum, b.sum)
         /\ ExactSum(b.sum, b.sum) /\ b.sum # 0

\* The decimal digits of a byte string, its count of digits after the '.', a
\* digit string without its leading zeros, and the decimal digits of a natural
\* number.
DigitsIn(bs) == [i \in 1..Len(SelectSeq(bs, IsDigit)) |-> SelectSeq(bs, IsDigit)[i] - ZERO]
FracDigits(bs) == IF Find(bs, DOT, 1) = 0 THEN 0 ELSE Len(bs) - Find(bs, DOT, 1)

RECURSIVE StripZeros(_)
StripZeros(ds) == IF Len(ds) > 1 /\ Head(ds) = 0 THEN StripZeros(Tail(ds)) ELSE ds

RECURSIVE DigitsOfNat(_)
DigitsOfNat(m) == IF m < 10 THEN <<m>> ELSE Append(DigitsOfNat(m \div 10), m % 10)

\* C13: on a byte string of the grammar '-'? digit+ ('.' digit+)? parse_decimal
\* returns, and the value returned times 10^(digits after the '.') is a whole
\* number whose decimal digits are the digits of the string, in order, and
\* which is negative only when the string starts with '-'.
C13_ParsesDecimal ==
    (mainpc = "parse_decimal" /\ ValidDecimal(file) /\ wst[1] # "idle")
    => /\ wst[1] = "returned"
       /\ LET scaled == calls[1][1].v * Pow10(FracDigits(file))
          IN /\ scaled % Unit = 0
             /\ DigitsOfNat(Abs(scaled) \div Unit) = StripZeros(DigitsIn(file))
             /\ scaled < 0 => file[1] = MINUS
             /\ scaled > 0 => file[1] # MINUS

\* The cities of the entries written, in the order written.
CitiesWritten ==
    LET E == SelectSeq(stdout, LAMBDA x : x.kind = "entry")
    IN [i \in 1..Len(E) |-> E[i].city]

\* C14: the cities of a report are in strictly increasing lexicographic order,
\* and every key of the table has its entry, its text written exactly once,
\* with no two keys sharing an entry.
C14_KeysSortedOnce ==
    (mainpc = "report" /\ red # "idle")
    => LET cs == CitiesWritten
       IN /\ \A i \in 1..(Len(cs) - 1) : LexLess(cs[i], cs[i + 1])
          /\ \A k \in DOMAIN acc[1] : Times(cs, from_utf8_lossy(k)) = 1
          /\ Len(cs) = Cardinality(DOMAIN acc[1])

\* s with sep written between its elements.
RECURSIVE Joined(_, _)
Joined(s, sep) ==
    IF Len(s) <= 1 THEN s ELSE <<Head(s), sep>> \o Joined(Tail(s), sep)

\* C15: what a report writes is "{", the entries with ", " between one and the
\* next and nothing else, then "}" and one newline: no separator after the last
\* entry and no line break between entries; for an empty table, "{}" and the
\* newline.
C15_SingleLineReport ==
    (mainpc = "report" /\ red # "idle")
    => /\ stdout = <<Lit("{")>>
                     \o Joined(SelectSeq(stdout, LAMBDA x : x.kind = "entry"), Lit(", "))
                     \o <<Lit("}\n")>>
       /\ acc[1] = EmptyTable => stdout = <<Lit("{"), Lit("}\n")>>

\* The counts of a table summed over its keys, and the rows that worker w has
\* consumed: the '\n' bytes among those its reader has given up.
SumCounts(t) == SumOver(DOMAIN t, [k \in DOMAIN t |-> t[k].count])
RowsConsumed(w) ==
    Cardinality({i \in (RangeStart(w) + 1)..(rd[w].pos - Len(rd[w].buf)) : file[i] = NL})

\* C16: over a file of well-formed rows, the counts of a worker's table sum,
\* after each iteration of its pass, to the number of rows it has consumed;
\* the counts of the reducer's running result sum to the rows of the tables
\* folded; and when the run ends without failure the counts of the final table
\* sum to the number of rows of the file.
C16_CountsSumToRows ==
    (WellFormedFile(file) /\ infiles # <<>>)
    => /\ \A w \in Workers : SumCounts(table[w]) = RowsConsumed(w)
       /\ acc # <<>> => SumCounts(acc[1])
                           = SumOver({merged[i] : i \in 1..Len(merged)},
                                     [w \in Workers |-> RowsConsumed(w)])
       /\ mainpc = "done" => /\ red = "done"
                            /\ SumCounts(acc[1]) = Len(LinesOf(file))

\* A run of MaxN workers over MaxRows well-formed rows that ended without
\* failure, some key counted more than once in one worker's table and again
\* in another's.
C16_Witness ==
    /\ WellFormedFile(file) /\ mainpc = "done"
    /\ N = MaxN /\ Len(LinesOf(file)) = MaxRows
    /\ \E w \in Workers, x \in Workers, k \in DOMAIN acc[1] :
         /\ w # x
         /\ k \in DOMAIN table[w] /\ table[w][k].count > 1
         /\ k \in DOMAIN table[x]

\* The values observed for key k in table w, in the order of the calls, the
\* exact total of a sequence of values and the total of their magnitudes.
ValuesObserved(w, k) ==
    LET c == SelectSeq(calls[w], LAMBDA x : x.key = k)
    IN [i \in 1..Len(c) |-> c[i].v]

RECURSIVE Total(_)
Total(vs) == IF vs = <<>> THEN 0 ELSE Head(vs) + Total(Tail(vs))

RECURSIVE TotalAbs(_)
TotalAbs(vs) == IF vs = <<>> THEN 0 ELSE Abs(Head(vs)) + TotalAbs(Tail(vs))

\* insert_or_update is a merge of the one-element aggregate into the stored
\* one, and stores the one-element aggregate under an absent key: on every
\* table at hand, for every key and value of a row.
InsertIsMerge ==
    \A w \in Workers, row \in WellFormedRows :
        LET k == RowKey(row)
            v == parse_decimal(RowVal(row)).v
            t == insert_or_update(table[w], k, v)
        IN /\ DOMAIN t = DOMAIN table[w] \cup {k}
           /\ \A x \in DOMAIN table[w] \ {k} : t[x] = table[w][x]
           /\ SameSample(t[k], IF k \in DOMAIN table[w]
                                THEN SampleMerge(table[w][k], SampleFrom(v))
                                ELSE SampleFrom(v))

\* C17 as stated: every table holds the keys observed, and each aggregate has
\* the count of the values observed for its key, a count above 0, their exact
\* total as its sum, and the smallest and the largest of them as its min and
\* max; and insert_or_update is the merge of a one-element aggregate.
C17_AggregateOfObservedExact ==
    /\ \A w \in Workers :
         /\ DOMAIN table[w] = {calls[w][i].key : i \in 1..Len(calls[w])}
         /\ \A k \in DOMAIN table[w] :
              LET vs == ValuesObserved(w, k)
                  V == {vs[i] : i \in 1..Len(vs)}
              IN /\ table[w][k].count > 0
                 /\ table[w][k].count = Len(vs)
                 /\ table[w][k].sum = Total(vs)
                 /\ table[w][k].min = MinOf(V)
                 /\ table[w][k].max = MaxOf(V)
    /\ InsertIsMerge

\* C17, amended: the same, the sum being the exact total of the values
\* observed when the total of their magnitudes is below 2^24 units in their
\* last place, so that no partial sum is rounded.
C17_AggregateOfObserved ==
    /\ \A w \in Workers :
         /\ DOMAIN table[w] = {calls[w][i].key : i \in 1..Len(calls[w])}
         /\ \A k \in DOMAIN table[w] :
              LET vs == ValuesObserved(w, k)
                  V == {vs[i] : i \in 1..Len(vs)}
              IN /\ table[w][k].count > 0
                 /\ table[w][k].count = Len(vs)
                 /\ TotalAbs(vs) < 2 ^ MantissaBits => table[w][k].sum = Total(vs)
                 /\ table[w][k].min = MinOf(V)
                 /\ table[w][k].max = MaxOf(V)
    /\ InsertIsMerge

\* A table that took another's entries in a merge and holds two keys, one of
\* them observed twice with different values, the other with a total that no
\* rounding touches.
C17_Witness ==
    /\ mainpc = "aggregate"
    /\ merged # <<>>
    /\ \E w \in Workers :
         /\ ~Moved(w)
         /\ Cardinality(DOMAIN table[w]) = 2
         /\ \E k \in DOMAIN table[w] :
              table[w][k].count = 2 /\ table[w][k].min < table[w][k].max
         /\ \E k \in DOMAIN table[w] :
              TotalAbs(ValuesObserved(w, k)) < 2 ^ MantissaBits

\* Some thread has panicked; and the run has ended as it should: every worker
\* has sent its table, every sender is dropped, the reducer's loop has ended,
\* one report is written and main is through.
Failed ==
    mainpc = "panicked" \/ red = "panicked" \/ \E w \in Workers : wst[w] = "panicked"
AllDone ==
    /\ mainpc = "done"
    /\ \A w \in Workers : wst[w] = "sent"
    /\ ~SendersAlive
    /\ chan = <<>>
    /\ red = "done"
    /\ ReportCount = 1

\* Once the scope of line 100 is entered, the run comes to an end: with a
\* failure, or as it should.
ScopeTerminates == (mainpc = "spawn_reducer") ~> (Failed \/ AllDone)

\* C18: a run over a file of well-formed rows in which no thread fails comes
\* to its end: every worker has sent its table, every sender is dropped, the
\* reducer's loop has ended and the report is written.
C18_FailureFreeTerminates == WellFormedFile(file) ~> (Failed \/ AllDone)

\* The file offset of the first byte worker w's reader has not given up.
Consumed(w) == rd[w].pos - Len(rd[w].buf)

\* One iteration of the loop: it gives up at least one byte and the loop goes
\* on, or it leaves the loop with the whole input given up, or it panics.
IterationAdvances ==
    wst[1] = "run" =>
        \/ wst'[1] = "run" /\ Consumed(1)' > Consumed(1)
        \/ wst'[1] = "sent" /\ Consumed(1)' = Len(file)
        \/ wst'[1] = "panicked"

\* An iteration starts with an empty stash and with no more given up than the
\* input holds.
IterationStart ==
    wst[1] = "run" => stash[1] = <<>> /\ Consumed(1) \in 0..Len(file)

ProduceTableEnded == wst[1] \in {"sent", "panicked"}

\* C19: produce_table terminates on every finite input, whatever the capacity
\* of the read buffer: every iteration of its loop gives up at least one byte
\* of the reader, or leaves the loop at the end of the input, or panics; the
\* stash is empty at the start of every iteration; and the loop ends.
C19_ProduceTableTerminates ==
    /\ [][IterationAdvances]_vars
    /\ []IterationStart
    /\ <>ProduceTableEnded

\* A pass over a file of more than one page that has ended, a row of it put
\* together from the stash.
C19_Witness ==
    /\ mainpc = "produce_table"
    /\ wst[1] = "sent"
    /\ cap < Len(file)
    /\ Consumed(1) = Len(file)
    /\ \E i \in 1..Len(calls[1]) : calls[1][i].branch # "page"

\* The middle partition w is the one between two equal split points.
ZeroLength(w) ==
    /\ Len(splits) = N - 1
    /\ w \in 2..(N - 1)
    /\ splits[w] = splits[w - 1]

\* The running result of the reducer, empty before the first table.
Result == IF acc = <<>> THEN EmptyTable ELSE acc[1]

\* The split points, the readers made from them and the workers of partitions
\* of length 0.
SplitsInOrder ==
    /\ \A i \in 1..(Len(splits) - 1) : splits[i] <= splits[i + 1]
    /\ infiles # <<>> =>
           \A w \in 2..(N - 1) :
               /\ infiles[w].pos = splits[w - 1]
               /\ infiles[w].lim = splits[w] - splits[w - 1]
               /\ infiles[w].lim >= 0
    /\ \A w \in Workers :
           ZeroLength(w) =>
               /\ wst[w] # "panicked"
               /\ table[w] = EmptyTable
               /\ calls[w] = <<>>
    /\ \A i \in 1..Len(chan) : ZeroLength(chan[i].from) => chan[i].table = EmptyTable

\* The reducer takes the table of a partition of length 0: the result is what it
\* was; and a table merged into an empty result becomes the result.
EmptyTableMerged ==
    red = "run" /\ chan # <<>> /\ chan' = Tail(chan) =>
        /\ ZeroLength(Head(chan).from) => Result' = Result
        /\ Result = EmptyTable => Result' = Head(chan).table

\* C20: the aligned split points are non-decreasing in the split index, so the
\* length splits[i+1] - splits[i] of a middle partition is never negative;
\* when two naive split points are aligned to the same newline the partition
\* between them has length 0, its worker returns an empty table, and merging
\* that table leaves the result unchanged.
C20_SplitsNonDecreasing ==
    /\ []SplitsInOrder
    /\ [][EmptyTableMerged]_vars

\* A run that ended with a middle partition of length 0, whose empty table the
\* reducer took together with a table of rows.
C20_Witness ==
    /\ mainpc = "done"
    /\ \E w \in Workers : ZeroLength(w) /\ wst[w] = "sent" /\ \E i \in 1..Len(merged) : merged[i] = w
    /\ acc # <<>>
    /\ acc[1] # EmptyTable

====
